---- MODULE Spec2Model ----
(***************************************************************************)
(* A model of evgfx's conversion engine (src/src/convert.rs): the palette, *)
(* the tile builder (create_tile), the deduplicating tile atlas, the tile  *)
(* map, the scan of Config::convert_image and the 4bpp and 8-bit           *)
(* serializers.                                                            *)
(*                                                                         *)
(* Rust indices are 0-based; the sequences below are 1-based, so index i   *)
(* of a Vec is element i + 1 of the sequence that models it.               *)
(***************************************************************************)
EXTENDS Integers, Sequences, FiniteSets, TLC

VARIABLES
    pc,         \* the position of the running operation
    config,     \* Config: width, height, sub_width, sub_height, transparency_color, alpha_threshold
    img,        \* the decoded image's dimensions: [width, height]
    tile_y,     \* convert_image's loop variables, in pixels
    tile_x,
    subtile_y,
    subtile_x,
    tile,       \* create_tile's tile.indexes
    pixel,      \* the pixel create_tile fetched last (Rgba<u8>), or None
    branch,     \* the path create_tile took for that pixel
    palette,    \* Palette.table
    tiles,      \* TileAtlas.atlas
    tilemap,    \* TileMap.map
    calls,      \* the update calls made so far: <<tile, returned index>>
    pos_i,      \* a serializer's outer loop: the tiles or map rows it is done with
    pos_j,      \* write_8bit's inner loop: the entries of the row it is done with
    output,     \* the bytes a serializer has written to its file
    result      \* a serializer's outcome: "none" while it runs, "ok", "err", "panic"

vars == <<pc, config, img, tile_y, tile_x, subtile_y, subtile_x, tile, pixel,
          branch, palette, tiles, tilemap, calls, pos_i, pos_j, output, result>>

(***************************************************************************)
(* Bounds of the model.                                                    *)
(***************************************************************************)
\* The largest image, in pixels (width * height).
MaxPixels == 6

\* The most update calls made on one atlas, and the longest tile submitted.
MaxCalls == 4
MaxTileLen == 2
\* The most palette indices an atlas handed to write_4bpp holds in all.
MaxIndices == 6
\* The most entries a map handed to write_8bit holds in all.
MaxEntries == 4

\* The colours an image's pixels and the transparency colour are drawn from.
Colors == {<<255, 0, 255>>, <<0, 255, 0>>, <<248, 0, 0>>}
\* The alpha values a pixel can have and the thresholds a Config can hold.
Alphas == {127, 128}
Thresholds == {0, 128}
\* The palette indices of the tiles submitted to update directly.
AtlasIndexes == {0, 1}
\* The palette indices of the tiles handed to write_4bpp.
Indexes4 == {0, 3, 7, 15, 16}
\* The atlas indices of the maps handed to write_8bit.
MapIndexes == {0, 254, 255, 256}

(***************************************************************************)
(* Option<T>.                                                              *)
(***************************************************************************)
None == <<>>
Some(v) == <<v>>
is_none(o) == o = None
unwrap(o) == o[1]

(***************************************************************************)
(* Pixels and the palette.                                                 *)
(***************************************************************************)
\* Rgba<u8>::to_rgb: the colour channels without the alpha channel.
to_rgb(p) == <<p[1], p[2], p[3]>>

\* Palette::insert: an unchecked append.
insert(table, color) == Append(table, color)

RECURSIVE get_from(_, _, _)
get_from(table, color, i) ==
    IF i >= Len(table) THEN None
    ELSE IF table[i + 1] = to_rgb(color) THEN Some(i)
    ELSE get_from(table, color, i + 1)

\* Palette::get: the first index whose entry equals the pixel's colour.
get(table, color) == get_from(table, color, 0)

(***************************************************************************)
(* create_tile, one pixel at a time.                                       *)
(***************************************************************************)
\* The alpha test with <= in place of <.
is_transparent_le(p, alpha_threshold) == p[4] <= alpha_threshold

\* create_tile's test pixel.0[3] < alpha_threshold.
is_transparent(p, alpha_threshold) == p[4] < alpha_threshold

\* The lookup-or-insert without the lookup: the colour is always inserted.
palette_with_always_insert(table, p) == insert(table, to_rgb(p))

\* The palette after create_tile's lookup-or-insert of an opaque pixel.
palette_with(table, p) ==
    IF is_none(get(table, p)) THEN insert(table, to_rgb(p)) ELSE table

(***************************************************************************)
(* TileAtlas::update.                                                      *)
(***************************************************************************)
RECURSIVE find_tile(_, _, _)
find_tile(atlas, new_tile, i) ==
    IF i >= Len(atlas) THEN None
    ELSE IF atlas[i + 1] = new_tile THEN Some(i)
    ELSE find_tile(atlas, new_tile, i + 1)

\* update without the scan: the tile is always appended.
update_no_dedup(atlas, new_tile) ==
    [atlas |-> Append(atlas, new_tile), index |-> Len(atlas)]

\* update that puts a new tile in front of the stored ones.
update_prepend(atlas, new_tile) ==
    IF is_none(find_tile(atlas, new_tile, 0))
    THEN [atlas |-> <<new_tile>> \o atlas, index |-> 0]
    ELSE [atlas |-> atlas, index |-> unwrap(find_tile(atlas, new_tile, 0))]

\* update that returns the atlas length instead of the length minus one.
update_off_by_one(atlas, new_tile) ==
    IF is_none(find_tile(atlas, new_tile, 0))
    THEN [atlas |-> Append(atlas, new_tile), index |-> Len(atlas) + 1]
    ELSE [atlas |-> atlas, index |-> unwrap(find_tile(atlas, new_tile, 0))]

\* TileAtlas::update: the atlas after the call and the index it returns.
update(atlas, new_tile) ==
    IF is_none(find_tile(atlas, new_tile, 0))
    THEN [atlas |-> Append(atlas, new_tile), index |-> Len(Append(atlas, new_tile)) - 1]
    ELSE [atlas |-> atlas, index |-> unwrap(find_tile(atlas, new_tile, 0))]

(***************************************************************************)
(* Config::convert_image.                                                  *)
(***************************************************************************)
\* The images and configurations of the model: an image whose sides are
\* exact multiples of the metatile, itself a multiple of the sub-tile (any
\* other image makes img.view or get_pixel read outside the image).
Sizes ==
    {s \in [iw : 1..MaxPixels, ih : 1..MaxPixels, w : 1..MaxPixels,
            h : 1..MaxPixels, sw : 1..MaxPixels, sh : 1..MaxPixels] :
        /\ s.iw * s.ih <= MaxPixels
        /\ s.iw % s.w = 0 /\ s.w % s.sw = 0
        /\ s.ih % s.h = 0 /\ s.h % s.sh = 0}

Pixels == {<<c[1], c[2], c[3], a>> : c \in Colors, a \in Alphas}

\* tilemap.map.push(Vec::new()) skipped once the map has a row.
push_row_once(map) == IF map = <<>> THEN Append(map, <<>>) ELSE map

\* tilemap.map.push(Vec::new())
push_row(map) == Append(map, <<>>)

\* tilemap.map[last_row].push(index)
push_index(map, index) ==
    [map EXCEPT ![Len(map)] = Append(map[Len(map)], index)]

InitConvert ==
    /\ pc = "convert_image"
    /\ \E s \in Sizes, t \in {None} \cup {Some(c) : c \in Colors}, a \in Thresholds :
        /\ config = [width |-> s.w, height |-> s.h, sub_width |-> s.sw,
                     sub_height |-> s.sh, transparency_color |-> t,
                     alpha_threshold |-> a]
        /\ img = [width |-> s.iw, height |-> s.ih]
    /\ tile_y = 0 /\ tile_x = 0 /\ subtile_y = 0 /\ subtile_x = 0
    /\ tile = <<>> /\ pixel = None /\ branch = "none"
    /\ palette = <<>> /\ tiles = <<>> /\ tilemap = <<>>
    /\ calls = <<>> /\ pos_i = 0 /\ pos_j = 0 /\ output = <<>> /\ result = "none"

\* Lines 198-207: the empty results, the transparency reservation, and the
\* entry into the first metatile's first row of sub-tiles.
Begin ==
    /\ pc = "convert_image"
    /\ tilemap' = <<>>
    /\ tiles' = <<>>
    /\ palette' = IF is_none(config.transparency_color) THEN <<>>
                  ELSE insert(<<>>, unwrap(config.transparency_color))
    /\ tile_y' = 0 /\ tile_x' = 0 /\ subtile_y' = 0
    /\ pc' = "row"
    /\ UNCHANGED <<config, img, subtile_x, tile, pixel, branch, calls, pos_i, pos_j, output, result>>

\* Line 208: one pass of the subtile_y loop starts a map row.
StartRow ==
    /\ pc = "row"
    /\ tilemap' = push_row(tilemap)
    /\ subtile_x' = tile_x
    /\ tile' = <<>>
    /\ pc' = "create_tile"
    /\ UNCHANGED <<config, img, tile_y, tile_x, subtile_y, pixel, branch,
                   palette, tiles, calls, pos_i, pos_j, output, result>>

\* Lines 238-252: create_tile resolves the next pixel of the view, in
\* row-major order. The view's pixel (x, y) is the image's pixel
\* (subtile_x + x, subtile_y + y); the sub-tiles partition the image, so each
\* pixel is fetched once and its value is drawn when it is fetched.
CreateTilePixel ==
    /\ pc = "create_tile"
    /\ \E p \in Pixels :
        /\ pixel' = Some(p)
        /\ IF is_transparent(p, config.alpha_threshold)
           THEN /\ tile' = Append(tile, 0)
                /\ branch' = "transparent"
                /\ UNCHANGED palette
           ELSE /\ palette' = palette_with(palette, p)
                /\ tile' = Append(tile, unwrap(get(palette_with(palette, p), p)))
                /\ branch' = "lookup"
    /\ pc' = IF Len(tile) + 1 = config.sub_width * config.sub_height
             THEN "update" ELSE "create_tile"
    /\ UNCHANGED <<config, img, tile_y, tile_x, subtile_y, subtile_x, tiles,
                   tilemap, calls, pos_i, pos_j, output, result>>

\* Lines 220-222 and the loop heads of lines 205-209: the finished tile goes
\* to the atlas, its index to the last map row, and the loops advance.
StoreTile ==
    /\ pc = "update"
    /\ LET u == update(tiles, tile) IN
        /\ tiles' = u.atlas
        /\ tilemap' = push_index(tilemap, u.index)
        /\ calls' = Append(calls, <<tile, u.index>>)
    /\ tile' = <<>>
    /\ IF subtile_x + config.sub_width < tile_x + config.width
       THEN /\ subtile_x' = subtile_x + config.sub_width
            /\ pc' = "create_tile"
            /\ UNCHANGED <<tile_y, tile_x, subtile_y>>
       ELSE IF subtile_y + config.sub_height < tile_y + config.height
       THEN /\ subtile_y' = subtile_y + config.sub_height
            /\ pc' = "row"
            /\ UNCHANGED <<tile_y, tile_x, subtile_x>>
       ELSE IF tile_x + config.width < img.width
       THEN /\ tile_x' = tile_x + config.width
            /\ subtile_y' = tile_y
            /\ pc' = "row"
            /\ UNCHANGED <<tile_y, subtile_x>>
       ELSE IF tile_y + config.height < img.height
       THEN /\ tile_y' = tile_y + config.height
            /\ tile_x' = 0
            /\ subtile_y' = tile_y + config.height
            /\ pc' = "row"
            /\ UNCHANGED subtile_x
       ELSE /\ pc' = "done"
            /\ UNCHANGED <<tile_y, tile_x, subtile_y, subtile_x>>
    /\ UNCHANGED <<config, img, pixel, branch, palette, pos_i, pos_j, output, result>>

Next == Begin \/ StartRow \/ CreateTilePixel \/ StoreTile

Spec == InitConvert /\ [][Next]_vars

(***************************************************************************)
(* Properties of convert_image and create_tile.                            *)
(***************************************************************************)
NoDuplicates(seq) ==
    \A a, b \in 1..Len(seq) : seq[a] = seq[b] => a = b

IsPrefix(short, long) ==
    /\ Len(short) <= Len(long)
    /\ \A k \in 1..Len(short) : long[k] = short[k]

\* C4: when create_tile has completed a tile, each of the tile's indices is a
\* position of the palette (index < palette length), whatever the image, the
\* alpha threshold and the transparency setting.
C4_TileIndicesInPalette ==
    pc = "update" => \A k \in 1..Len(tile) : tile[k] < Len(palette)

\* C5: at every step of convert_image the palette holds no two equal colours
\* and only grows at its end: the entries it had keep their indices.
C5_PaletteUniqueAndStable ==
    [][NoDuplicates(palette') /\ IsPrefix(palette, palette')]_vars

\* C5's case: an opaque pixel of the configured transparency colour was looked
\* up after another colour had been added behind the reserved entry.
C5_Witness ==
    /\ branch = "lookup"
    /\ ~is_none(config.transparency_color)
    /\ to_rgb(unwrap(pixel)) = unwrap(config.transparency_color)
    /\ Len(palette) >= 2
    /\ tile # <<>> /\ tile[Len(tile)] = 0

\* C6: during the scan and after it, every entry of every map row is an index
\* of the atlas (entry < atlas length).
C6_MapEntriesInAtlas ==
    \A r \in 1..Len(tilemap) : \A k \in 1..Len(tilemap[r]) :
        tilemap[r][k] < Len(tiles)

\* C6's case: the conversion returned a map of several rows that refers to
\* several atlas tiles, one of them more than once.
C6_Witness ==
    /\ pc = "done"
    /\ Len(tilemap) >= 2
    /\ Len(tiles) >= 2
    /\ Len(calls) > Len(tiles)

\* C8: in create_tile a pixel takes the transparent path exactly when its
\* alpha is below the threshold, and on that path index 0 is appended to the
\* tile and the palette is left as it was.
C8_AlphaShortCircuit ==
    [][pc = "create_tile" =>
        /\ (unwrap(pixel')[4] < config.alpha_threshold) <=> (branch' = "transparent")
        /\ branch' = "transparent" => (tile' = Append(tile, 0) /\ palette' = palette)
        /\ branch' = "lookup" =>
            /\ tile' = Append(tile, tile'[Len(tile')])
            /\ tile'[Len(tile')] < Len(palette')
            /\ palette'[tile'[Len(tile')] + 1] = to_rgb(unwrap(pixel'))]_vars

\* C8's case: a pixel below the threshold was resolved with no transparency
\* colour configured, while the palette's entry 0 is some pixel's colour.
C8_Witness ==
    /\ branch = "transparent"
    /\ is_none(config.transparency_color)
    /\ palette # <<>>
    /\ tile # <<>> /\ tile[Len(tile)] = 0

\* C8's other case: a pixel whose alpha equals the threshold took the lookup.
C8_WitnessOpaque ==
    /\ branch = "lookup"
    /\ unwrap(pixel)[4] = config.alpha_threshold

\* C10 as stated: the returned map has height / sub_height rows of
\* width / sub_width entries each, width and height being the image's.
C10_RowsSpanImageWidth ==
    pc = "done" =>
        /\ Len(tilemap) = img.height \div config.sub_height
        /\ \A r \in 1..Len(tilemap) :
            Len(tilemap[r]) = img.width \div config.sub_width

\* C10 amended: a row is started once per subtile_y pass of each metatile, so
\* the returned map has one row per sub-tile row of every metatile, each as
\* long as a metatile is wide in sub-tiles; the map has the stated shape
\* exactly when the image is one metatile wide.
C10_RowsPerMetatile ==
    pc = "done" =>
        /\ Len(tilemap) = (img.height \div config.height)
                            * (img.width \div config.width)
                            * (config.height \div config.sub_height)
        /\ \A r \in 1..Len(tilemap) :
            Len(tilemap[r]) = config.width \div config.sub_width
        /\ (img.width = config.width) <=>
            /\ Len(tilemap) = img.height \div config.sub_height
            /\ \A r \in 1..Len(tilemap) :
                Len(tilemap[r]) = img.width \div config.sub_width

\* C10's case: an image two metatiles wide whose metatiles are subdivided.
C10_Witness ==
    /\ pc = "done"
    /\ img.width > config.width
    /\ config.width > config.sub_width
    /\ Len(tilemap) >= 2

(***************************************************************************)
(* TileAtlas::update called directly, on any tiles.                        *)
(***************************************************************************)
\* Config::new(): the defaults, held by the runs that convert no image.
ConfigNew ==
    [width |-> 8, height |-> 8, sub_width |-> 8, sub_height |-> 8,
     transparency_color |-> None, alpha_threshold |-> 128]

\* The state of the parts a run does not use.
Idle ==
    /\ config = ConfigNew
    /\ img = [width |-> 0, height |-> 0]
    /\ tile_y = 0 /\ tile_x = 0 /\ subtile_y = 0 /\ subtile_x = 0
    /\ tile = <<>> /\ pixel = None /\ branch = "none"
    /\ palette = <<>>
    /\ pos_i = 0 /\ pos_j = 0 /\ output = <<>> /\ result = "none"

AtlasTiles == UNION {[1..n -> AtlasIndexes] : n \in 0..MaxTileLen}

\* TileAtlas::new()
InitAtlas ==
    /\ pc = "atlas"
    /\ tiles = <<>>
    /\ tilemap = <<>>
    /\ calls = <<>>
    /\ Idle

\* One call tiles.update(new_tile).
UpdateCall ==
    /\ pc = "atlas"
    /\ Len(calls) < MaxCalls
    /\ \E new_tile \in AtlasTiles :
        /\ tiles' = update(tiles, new_tile).atlas
        /\ calls' = Append(calls, <<new_tile, update(tiles, new_tile).index>>)
    /\ UNCHANGED <<pc, config, img, tile_y, tile_x, subtile_y, subtile_x, tile,
                   pixel, branch, palette, tilemap, pos_i, pos_j, output, result>>

NextAtlas == UpdateCall

SpecAtlas == InitAtlas /\ [][NextAtlas]_vars

\* The positions (0-based) of the stored tiles equal to t.
Matches(atlas, t) == {k \in 0..(Len(atlas) - 1) : atlas[k + 1] = t}

Lowest(set) == CHOOSE m \in set : \A k \in set : m <= k

\* C1: update returns the lowest index of a stored tile equal to the one
\* submitted and leaves the atlas as it was, or, when no stored tile is equal,
\* appends the tile and returns the new length minus 1.
C1_UpdateContract ==
    [][Len(calls') = Len(calls) + 1 =>
        LET new_tile == calls'[Len(calls')][1]
            index == calls'[Len(calls')][2]
        IN  IF Matches(tiles, new_tile) # {}
            THEN index = Lowest(Matches(tiles, new_tile)) /\ tiles' = tiles
            ELSE tiles' = Append(tiles, new_tile) /\ index = Len(tiles') - 1]_vars

\* C1's case: the same tile was submitted twice in a row behind another tile;
\* both calls returned the same index and the second left the atlas alone.
C1_Witness ==
    /\ Len(calls) = 3
    /\ calls[2][1] = calls[3][1]
    /\ calls[2][2] = calls[3][2]
    /\ calls[2][2] = 1
    /\ Len(tiles) = 2

\* C2: after any sequence of update calls no two stored tiles are equal, and
\* the index each call returned still refers to the tile that call submitted.
C2_AtlasUniqueAndStable ==
    /\ NoDuplicates(tiles)
    /\ \A c \in 1..Len(calls) :
        /\ calls[c][2] < Len(tiles)
        /\ tiles[calls[c][2] + 1] = calls[c][1]

\* C2's case: tiles were appended after an index was returned, and a later
\* call found an earlier tile again.
C2_Witness ==
    /\ Len(calls) = 4
    /\ Len(tiles) = 3
    /\ calls[1][2] = 0
    /\ calls[4][2] = 0

(***************************************************************************)
(* Tile::convert_to_4bpp and TileAtlas::write_4bpp.                        *)
(***************************************************************************)
RECURSIVE bit_or(_, _)
\* usize | usize
bit_or(a, b) ==
    IF a = 0 THEN b
    ELSE IF b = 0 THEN a
    ELSE (IF a % 2 = 1 \/ b % 2 = 1 THEN 1 ELSE 0) + 2 * bit_or(a \div 2, b \div 2)

\* usize << n. The operand has passed the limit test of line 26, so no bit is
\* shifted out of the usize.
shl(a, n) == a * 2^n

\* usize as u8
as_u8(a) == a % 256

\* The limit test with > in place of >=.
exceeds_gt(index) == index > 16

\* Line 26: an index the 4-bit format cannot hold.
exceeds(index) == index >= 16

\* Line 29 with the two indices exchanged.
pack_swapped(low, high) == as_u8(bit_or(high, shl(low, 4)))

\* Line 29: (indexes[i] | indexes[i + 1] << 4) as u8
pack(low, high) == as_u8(bit_or(low, shl(high, 4)))

Ok(v) == [kind |-> "ok", value |-> v]
Err == [kind |-> "err", value |-> <<>>]
Panic == [kind |-> "panic", value |-> <<>>]

RECURSIVE convert_from(_, _, _)
\* The loop of convert_to_4bpp from index k on. indexes[k + 1] is read only
\* when indexes[k] is within the limit (||), and panics when the tile ends
\* at k.
convert_from(indexes, k, bytes) ==
    IF k >= Len(indexes) THEN Ok(bytes)
    ELSE IF exceeds(indexes[k + 1]) THEN Err
    ELSE IF k + 1 >= Len(indexes) THEN Panic
    ELSE IF exceeds(indexes[k + 2]) THEN Err
    ELSE convert_from(indexes, k + 2,
                      Append(bytes, pack(indexes[k + 1], indexes[k + 2])))

\* Tile::convert_to_4bpp
convert_to_4bpp(indexes) == convert_from(indexes, 0, <<>>)

\* The atlases handed to write_4bpp: distinct tiles of one length, as update
\* and convert_image leave them.
Atlases4 ==
    UNION {{a \in [1..n -> [1..len -> Indexes4]] : NoDuplicates(a)} :
            <<len, n>> \in {d \in (1..MaxIndices) \X (0..MaxIndices) :
                              d[1] * d[2] <= MaxIndices}}

Init4bpp ==
    /\ pc = "write_4bpp"
    /\ tiles \in Atlases4
    /\ tilemap = <<>>
    /\ calls = <<>>
    /\ Idle

\* Lines 63-65: one pass of write_4bpp's loop, the file taking every write.
Write4bppTile ==
    /\ pc = "write_4bpp"
    /\ result = "none"
    /\ pos_i < Len(tiles)
    /\ LET r == convert_to_4bpp(tiles[pos_i + 1]) IN
        IF r.kind = "ok"
        THEN /\ output' = output \o r.value
             /\ pos_i' = pos_i + 1
             /\ UNCHANGED result
        ELSE /\ result' = r.kind
             /\ UNCHANGED <<output, pos_i>>
    /\ UNCHANGED <<pc, config, img, tile_y, tile_x, subtile_y, subtile_x, tile,
                   pixel, branch, palette, tiles, tilemap, calls, pos_j>>

\* Line 66: Ok(()) once every tile is written.
Write4bppDone ==
    /\ pc = "write_4bpp"
    /\ result = "none"
    /\ pos_i >= Len(tiles)
    /\ result' = "ok"
    /\ UNCHANGED <<pc, config, img, tile_y, tile_x, subtile_y, subtile_x, tile,
                   pixel, branch, palette, tiles, tilemap, calls, pos_i, pos_j,
                   output>>

Next4bpp == Write4bppTile \/ Write4bppDone

Spec4bpp == Init4bpp /\ [][Next4bpp]_vars

EvenTiles == \A t \in 1..Len(tiles) : Len(tiles[t]) % 2 = 0

HasIndexFrom16 ==
    \E t \in 1..Len(tiles) : \E k \in 1..Len(tiles[t]) : tiles[t][k] >= 16

\* C7: for tiles of even length, write_4bpp ends in the content error exactly
\* when some stored tile holds an index >= 16, and in Ok otherwise.
C7_FailsIffIndexFrom16 ==
    (result # "none" /\ EvenTiles) =>
        /\ result = "err" <=> HasIndexFrom16
        /\ result = "ok" <=> ~HasIndexFrom16

\* C7's case: an atlas whose second tile holds index 16 behind an index 15
\* was refused after its first tile was written.
C7_Witness ==
    /\ result = "err"
    /\ Len(tiles) = 2
    /\ pos_i = 1
    /\ tiles[1] = <<15, 15>>
    /\ tiles[2] = <<15, 16>>

\* C7's other case: an atlas with indices up to 15 was written without error.
C7_WitnessOk ==
    /\ result = "ok"
    /\ Len(tiles) = 2
    /\ tiles[2] = <<15, 0>>

\* Byte k (from 1) of an even tile: its indices 2k - 1 and 2k, the first in
\* the low nibble.
ExpectedBytes(indexes) ==
    [k \in 1..(Len(indexes) \div 2) |-> indexes[2 * k - 1] + 16 * indexes[2 * k]]

RECURSIVE ExpectedOutput(_, _)
ExpectedOutput(atlas, n) ==
    IF n = 0 THEN <<>>
    ELSE ExpectedOutput(atlas, n - 1) \o ExpectedBytes(atlas[n])

\* C9: for tiles of even length with indices below 16, write_4bpp has written,
\* for each tile it is done with and in atlas order, the tile's n/2 bytes,
\* byte k being indexes[2k] + 16 * indexes[2k+1].
C9_PackedBytes ==
    (EvenTiles /\ ~HasIndexFrom16) => output = ExpectedOutput(tiles, pos_i)

\* C9's case: the tile [3, 7] was written as 0x73 behind a two-byte tile.
C9_Witness ==
    /\ result = "ok"
    /\ tiles = << <<7, 0>>, <<3, 7>> >>
    /\ output = <<7, 115>>

\* C9's other case: a tile of four indices was written as two bytes.
C9_WitnessTwoBytes ==
    /\ result = "ok"
    /\ tiles = << <<3, 7, 15, 0>> >>
    /\ output = <<115, 15>>

(***************************************************************************)
(* TileMap::write_8bit.                                                    *)
(***************************************************************************)
\* u8::MAX
U8_MAX == 255

\* Line 88: an atlas index write_8bit refuses.
too_large(index) == index >= U8_MAX

\* The maps handed to write_8bit: rows of one length, as convert_image
\* leaves them.
Maps ==
    UNION {[1..n -> [1..len -> MapIndexes]] :
            <<len, n>> \in {d \in (1..MaxEntries) \X (0..MaxEntries) :
                              d[1] * d[2] <= MaxEntries}}

Init8bit ==
    /\ pc = "write_8bit"
    /\ tilemap \in Maps
    /\ tiles = <<>>
    /\ calls = <<>>
    /\ Idle

\* Lines 87-92: one pass of the inner loop, the file taking every write.
Write8bitEntry ==
    /\ pc = "write_8bit"
    /\ result = "none"
    /\ pos_i < Len(tilemap)
    /\ pos_j < Len(tilemap[pos_i + 1])
    /\ IF too_large(tilemap[pos_i + 1][pos_j + 1])
       THEN /\ result' = "err"
            /\ UNCHANGED <<output, pos_j>>
       ELSE /\ output' = Append(output, as_u8(tilemap[pos_i + 1][pos_j + 1]))
            /\ pos_j' = pos_j + 1
            /\ UNCHANGED result
    /\ UNCHANGED <<pc, config, img, tile_y, tile_x, subtile_y, subtile_x, tile,
                   pixel, branch, palette, tiles, tilemap, calls, pos_i>>

\* Line 86: the outer loop moves to the next row.
Write8bitNextRow ==
    /\ pc = "write_8bit"
    /\ result = "none"
    /\ pos_i < Len(tilemap)
    /\ pos_j >= Len(tilemap[pos_i + 1])
    /\ pos_i' = pos_i + 1
    /\ pos_j' = 0
    /\ UNCHANGED <<pc, config, img, tile_y, tile_x, subtile_y, subtile_x, tile,
                   pixel, branch, palette, tiles, tilemap, calls, output, result>>

\* Line 94: Ok(()) once every row is written.
Write8bitDone ==
    /\ pc = "write_8bit"
    /\ result = "none"
    /\ pos_i >= Len(tilemap)
    /\ result' = "ok"
    /\ UNCHANGED <<pc, config, img, tile_y, tile_x, subtile_y, subtile_x, tile,
                   pixel, branch, palette, tiles, tilemap, calls, pos_i, pos_j,
                   output>>

Next8bit == Write8bitEntry \/ Write8bitNextRow \/ Write8bitDone

Spec8bit == Init8bit /\ [][Next8bit]_vars

RECURSIVE Flatten(_, _)
Flatten(map, n) ==
    IF n = 0 THEN <<>> ELSE Flatten(map, n - 1) \o map[n]

HasEntryAbove255 ==
    \E r \in 1..Len(tilemap) : \E k \in 1..Len(tilemap[r]) : tilemap[r][k] > 255

\* C3: write_8bit fails exactly when some map entry exceeds 255; a map whose
\* entries are all in 0..255 is written, one byte per entry, rows in order.
C3_FailsIffEntryAbove255 ==
    result # "none" =>
        /\ result = "err" <=> HasEntryAbove255
        /\ result = "ok" => output = Flatten(tilemap, Len(tilemap))

====
